---- MODULE Spec2Model ----
(***************************************************************************)
(* Model of src/lib.rs of rust-wasm-web-basics:                            *)
(*                                                                         *)
(*     #[wasm_bindgen]                                                     *)
(*     pub fn log_msg() {                                                  *)
(*         web_sys::console::log_1(&"Hello, WASM!".into())                 *)
(*     }                                                                   *)
(*                                                                         *)
(* The module is the exported function log_msg; the host runtime is the    *)
(* environment: it invokes the export, runs console.log when the import    *)
(* log_1 is called (accepting the call or throwing), and does other work   *)
(* between invocations.  One invocation is the chain                       *)
(*   idle -> entry -> converted -> in_host -> host_ok | host_err -> idle.  *)
(***************************************************************************)
EXTENDS Integers, Sequences, FiniteSets, TLC

\* Bounds of the model: invocations the host makes, values of the rest of
\* the host-visible state.
MaxCalls == 3
MaxDom == 2

\* Errors the host console may raise when it does not accept a call.
HostErrors == {"TypeError", "RangeError"}

VARIABLES
    pc,          \* position of the current invocation of log_msg
    temp,        \* the temporary JsValue of the invocation (module state)
    pending,     \* arguments of the console.log call in flight
    console,     \* entries the host console has received, oldest first
    dom,         \* every other part of the host-visible state
    logCalls,    \* calls made to the host logging facility, in total
    callsThis,   \* calls made to it by the current / last invocation
    invoked,     \* invocations of log_msg started
    completed,   \* invocations that returned normally
    failed,      \* invocations that ended with the host's failure
    hostOutcome, \* what console.log did in the current / last invocation
    result,      \* what the last finished invocation gave its caller
    leaked,      \* JsValue temporaries whose destructor never ran
    before       \* state when the current / last invocation began

vars == <<pc, temp, pending, console, dom, logCalls, callsThis, invoked,
          completed, failed, hostOutcome, result, leaked, before>>

\* ---------------------------------------------------------------- values

\* Faulty variant: one letter of the text is wrong.
MSG_typo == <<72, 101, 108, 108, 111, 44, 32, 87, 65, 83, 78, 33>>
\* The string literal "Hello, WASM!" of line 5, as its UTF-8 bytes.
MSG == <<72, 101, 108, 108, 111, 44, 32, 87, 65, 83, 77, 33>>

NoValue == [tag |-> "none", units |-> <<>>]

\* &str -> JS string: UTF-8 bytes decoded to UTF-16 code units (one- and
\* two-byte sequences; the literal is ASCII).
RECURSIVE Utf8ToUtf16(_)
Utf8ToUtf16(b) ==
    IF b = <<>> THEN <<>>
    ELSE IF Head(b) < 128 THEN <<Head(b)>> \o Utf8ToUtf16(Tail(b))
    ELSE IF Len(b) >= 2
         THEN <<(Head(b) % 32) * 64 + (b[2] % 64)>> \o Utf8ToUtf16(Tail(Tail(b)))
         ELSE <<65533>>

\* `.into()` of line 5: From<&str> for JsValue.
into(s) == [tag |-> "string", units |-> Utf8ToUtf16(s)]

NoResult == [kind |-> "none", value |-> "undefined"]

\* ------------------------------------------------------------------ Init

Init ==
    /\ pc = "idle"
    /\ temp = NoValue
    /\ pending = <<>>
    /\ console = <<>>
    /\ dom \in 0..MaxDom
    /\ logCalls = 0
    /\ callsThis = 0
    /\ invoked = 0
    /\ completed = 0
    /\ failed = 0
    /\ hostOutcome = "none"
    /\ result = NoResult
    /\ leaked = 0
    /\ before = [console |-> <<>>, dom |-> dom, leaked |-> 0]

\* --------------------------------------------------------------- actions

\* The host calls the export log_msg (no arguments).
call_log_msg ==
    /\ pc = "idle"
    /\ invoked < MaxCalls
    /\ pc' = "entry"
    /\ invoked' = invoked + 1
    /\ callsThis' = 0
    /\ hostOutcome' = "none"
    /\ result' = NoResult
    /\ before' = [console |-> console, dom |-> dom, leaked |-> leaked]
    /\ UNCHANGED <<temp, pending, console, dom, logCalls, completed, failed,
                   leaked>>

\* "Hello, WASM!".into(): the temporary JsValue is built.
log_msg_into ==
    /\ pc = "entry"
    /\ temp' = into(MSG)
    /\ pc' = "converted"
    /\ UNCHANGED <<pending, console, dom, logCalls, callsThis, invoked,
                   completed, failed, hostOutcome, result, leaked, before>>

\* Faulty variant: the call is left out.
log_msg_log_1_skipped ==
    /\ pc = "converted"
    /\ pc' = "host_ok"
    /\ hostOutcome' = "ok"
    /\ UNCHANGED <<temp, pending, console, dom, logCalls, callsThis, invoked,
                   completed, failed, result, leaked, before>>

\* web_sys::console::log_1(&temp): one call of console.log with one argument.
log_1_call ==
    /\ pc = "converted"
    /\ pending' = <<temp>>
    /\ logCalls' = logCalls + 1
    /\ callsThis' = callsThis + 1
    /\ pc' = "in_host"
    /\ UNCHANGED <<temp, console, dom, invoked, completed, failed,
                   hostOutcome, result, leaked, before>>

\* Faulty variant: the module remembers that it has logged and logs only once.
log_msg_log_1_first_only ==
    IF logCalls = 0 THEN log_1_call ELSE log_msg_log_1_skipped

log_msg_log_1 == log_1_call

\* The host console accepts the call: the entry is written, the import returns.
console_log_ok ==
    /\ pc = "in_host"
    /\ console' = Append(console, pending)
    /\ pending' = <<>>
    /\ hostOutcome' = "ok"
    /\ pc' = "host_ok"
    /\ UNCHANGED <<temp, dom, logCalls, callsThis, invoked, completed, failed,
                   result, leaked, before>>

\* The host console fails: it throws, nothing is written.
console_log_throw ==
    /\ pc = "in_host"
    /\ \E e \in HostErrors : hostOutcome' = e
    /\ pending' = <<>>
    /\ pc' = "host_err"
    /\ UNCHANGED <<temp, console, dom, logCalls, callsThis, invoked, completed,
                   failed, result, leaked, before>>

\* Faulty variant: returns before the logging call has been made.
log_msg_return_early ==
    /\ pc \in {"converted", "host_ok"}
    /\ temp' = NoValue
    /\ result' = [kind |-> "returned", value |-> "undefined"]
    /\ completed' = completed + 1
    /\ pc' = "idle"
    /\ UNCHANGED <<pending, console, dom, logCalls, callsThis, invoked, failed,
                   hostOutcome, leaked, before>>

\* Faulty variant: hands a value back to the caller.
log_msg_return_value ==
    /\ pc = "host_ok"
    /\ temp' = NoValue
    /\ result' = [kind |-> "returned", value |-> "Hello, WASM!"]
    /\ completed' = completed + 1
    /\ pc' = "idle"
    /\ UNCHANGED <<pending, console, dom, logCalls, callsThis, invoked, failed,
                   hostOutcome, leaked, before>>

\* Faulty variant: touches host state besides the console.
log_msg_return_touching_dom ==
    /\ pc = "host_ok"
    /\ temp' = NoValue
    /\ result' = [kind |-> "returned", value |-> "undefined"]
    /\ completed' = completed + 1
    /\ dom' = (dom + 1) % (MaxDom + 1)
    /\ pc' = "idle"
    /\ UNCHANGED <<pending, console, logCalls, callsThis, invoked, failed,
                   hostOutcome, leaked, before>>

\* Faulty variant: waits after the logging call instead of returning.
log_msg_return_waiting ==
    /\ pc = "host_ok"
    /\ UNCHANGED vars

\* End of the body (line 6): the temporary is dropped, log_msg returns ().
log_msg_return ==
    /\ pc = "host_ok"
    /\ temp' = NoValue
    /\ result' = [kind |-> "returned", value |-> "undefined"]
    /\ completed' = completed + 1
    /\ pc' = "idle"
    /\ UNCHANGED <<pending, console, dom, logCalls, callsThis, invoked, failed,
                   hostOutcome, leaked, before>>

\* Faulty variant: the failure is swallowed and log_msg returns normally.
log_msg_unwind_swallowed ==
    /\ pc = "host_err"
    /\ temp' = NoValue
    /\ result' = [kind |-> "returned", value |-> "undefined"]
    /\ completed' = completed + 1
    /\ pc' = "idle"
    /\ UNCHANGED <<pending, console, dom, logCalls, callsThis, invoked, failed,
                   hostOutcome, leaked, before>>

\* log_1 is imported without a catch and the body handles no error: what the
\* host threw passes through log_msg to its caller.  The frame of log_msg is
\* abandoned; whether the temporary's destructor runs on that path is not
\* decided by the source, so both outcomes are allowed.
log_msg_unwind ==
    /\ pc = "host_err"
    /\ temp' = NoValue
    /\ leaked' \in {leaked, leaked + 1}
    /\ result' = [kind |-> "threw", value |-> hostOutcome]
    /\ failed' = failed + 1
    /\ pc' = "idle"
    /\ UNCHANGED <<pending, console, dom, logCalls, callsThis, invoked,
                   completed, hostOutcome, before>>

\* Other host activity between invocations; it does not log.
host_activity ==
    /\ pc = "idle"
    /\ \E d \in 0..MaxDom : d # dom /\ dom' = d
    /\ UNCHANGED <<pc, temp, pending, console, logCalls, callsThis, invoked,
                   completed, failed, hostOutcome, result, leaked, before>>

Next ==
    \/ call_log_msg
    \/ log_msg_into
    \/ log_msg_log_1
    \/ console_log_ok
    \/ console_log_throw
    \/ log_msg_return
    \/ log_msg_unwind
    \/ host_activity

Spec == Init /\ [][Next]_vars

\* log_msg is synchronous wasm code: once entered, each of its own steps is
\* taken.  Nothing is assumed of the host.
FairSpec ==
    /\ Spec
    /\ WF_vars(log_msg_into)
    /\ WF_vars(log_msg_log_1)
    /\ WF_vars(log_msg_return)
    /\ WF_vars(log_msg_unwind)

\* ---------------------------------------------------------------- claims

\* The text "Hello, WASM!" as a JS string value: its UTF-16 code units.
HelloWasm ==
    [tag |-> "string",
     units |-> <<72, 101, 108, 108, 111, 44, 32, 87, 65, 83, 77, 33>>]

InFlight == pc \in {"in_host", "host_ok", "host_err"}
Finished == pc = "idle" /\ result.kind # "none"

\* C1: every invocation of log_msg makes exactly one call to the host logging
\* facility: never more than one while it runs, exactly one once the call
\* point is passed and when it has finished, so that the facility has been
\* called once per invocation that reached it, whatever the host state.
C1_ExactlyOneCall ==
    /\ callsThis <= 1
    /\ (InFlight => callsThis = 1)
    /\ (Finished => callsThis = 1)
    /\ logCalls = completed + failed + (IF InFlight THEN 1 ELSE 0)

\* A second invocation has finished, each with its one call.
C1_Witness == Finished /\ invoked = 2 /\ logCalls = 2 /\ callsThis = 1

\* C2: the call log_msg makes carries a single argument, the text
\* "Hello, WASM!", on every invocation and in every host state; every entry
\* the console received is that one-argument entry.
C2_ArgumentIsLiteral ==
    /\ (pc = "in_host" => pending = <<HelloWasm>>)
    /\ \A i \in 1..Len(console) : console[i] = <<HelloWasm>>

\* A call is in flight after earlier invocations, in a changed host state.
C2_Witness ==
    /\ pc = "in_host"
    /\ Len(pending) = 1
    /\ invoked = 3
    /\ dom # before.dom \/ Len(console) = 2

\* C3: when the host console accepted the call, the invocation ends by
\* returning normally, with no return value and no exception.
C3_NormalReturn ==
    (pc = "idle" /\ hostOutcome = "ok")
        => result = [kind |-> "returned", value |-> "undefined"]

\* An invocation whose call the host accepted has finished.
C3_Witness == pc = "idle" /\ hostOutcome = "ok" /\ completed >= 1

C5_FailurePropagates ==
    /\ (pc = "host_err" =>
          /\ callsThis = 1
          /\ console = before.console
          /\ dom = before.dom)
    /\ ((pc = "idle" /\ hostOutcome \in HostErrors) =>
          /\ result = [kind |-> "threw", value |-> hostOutcome]
          /\ callsThis = 1
          /\ console = before.console
          /\ logCalls = completed + failed)

\* An invocation has ended with the host's failure.
C5_Witness ==
    pc = "idle" /\ hostOutcome = "RangeError" /\ result.kind = "threw"

\* C6: the facility is called, and the console written, only inside an
\* invocation that has been called and has not returned; log_msg returns only
\* after its call to the facility has been made and answered.
C6_Order ==
    [][/\ (logCalls' # logCalls => pc = "converted" /\ pc' = "in_host")
       /\ (console' # console => pc = "in_host")
       /\ ((pc # "idle" /\ pc' = "idle") =>
              /\ callsThis = 1
              /\ pending = <<>>
              /\ pc \in {"host_ok", "host_err"})]_vars

\* The side effect is performed and log_msg has not returned yet.
C6_Witness == pc = "host_ok" /\ callsThis = 1 /\ Len(console) >= 1

\* C7: provided the host logging call always returns (the invocation never
\* stays in the host for ever), every invocation of log_msg that is called
\* eventually returns to its caller.
C7_Terminates ==
    ([]<>(pc # "in_host")) => ((pc = "entry") ~> (pc = "idle"))

\* Every invocation the host made has ended.
C7_Witness == pc = "idle" /\ invoked = MaxCalls /\ completed + failed = MaxCalls

\* C8: after n invocations completed with the host operating normally, other
\* host activity in between or not, the console holds exactly n entries,
\* each "Hello, WASM!", from exactly n calls.
C8_NEntries ==
    (pc = "idle" /\ failed = 0) =>
        /\ Len(console) = completed
        /\ logCalls = completed
        /\ console = [i \in 1..completed |-> <<HelloWasm>>]

\* Three invocations completed normally, the host having done other work.
C8_Witness ==
    pc = "idle" /\ failed = 0 /\ completed = 3 /\ dom # before.dom

====
